---- MODULE Spec2Model ----
(***************************************************************************)
(* Pipeline event machine of the cycle simulator (struct State of          *)
(* src/simulator.cpp, lines 291-676): one machine state, execute() driving *)
(* the chain of deferred events Op1Fetch -> Op2Fetch -> Writeback, with    *)
(* the Exception sink.  One step of the model is either the decode step of *)
(* execute() or the consumption of one pending event by the generic        *)
(* dispatcher handle_event(const ExecutionEvent&).                         *)
(***************************************************************************)
EXTENDS Integers, Sequences, FiniteSets, TLC

(***************************************************************************)
(* Bounds of the model.                                                    *)
(***************************************************************************)
\* execute() is issued only while clk < MaxClk (clk itself is unbounded).
MaxClk == 3

\* Register numbers and memory addresses used by the modelled instructions
\* (a part of 0..15 and of 0..1023), and the literals they embed.
Regs == {0, 1}
Addrs == {0, 1}
ImmValues == {-1}
\* literal of a (malformed) Immediate destination; it is never read
ResImmValues == {1}

\* std::uint8_t cells: a store keeps the value modulo CellWidth
CellWidth == 256

(***************************************************************************)
(* Source, Instruction, ExecutionEvent (source.h, instruction.h, event.h)  *)
(***************************************************************************)
DirectSource(r) == [mode |-> "Direct", reg |-> r]
IndirectSource(a) == [mode |-> "Indirect", addr |-> a]
ImmidiateSource(v) == [mode |-> "Immediate", value |-> v]

ReadSources ==
  {DirectSource(r) : r \in Regs} \cup {IndirectSource(a) : a \in Addrs}
    \cup {ImmidiateSource(v) : v \in ImmValues}

ResSources ==
  {DirectSource(r) : r \in Regs} \cup {IndirectSource(a) : a \in Addrs}
    \cup {ImmidiateSource(v) : v \in ResImmValues}

BinaryOperation == {"ADD", "SUB"}

UnaryInstruction(o1, rs) == [type |-> "Unary", op1_addr |-> o1, res_addr |-> rs]
BinaryInstruction(o1, o2, rs, o) ==
  [type |-> "Binary", op1_addr |-> o1, op2_addr |-> o2, res_addr |-> rs, op |-> o]
JumpInstruction(off) == [type |-> "Jump", offset_addr |-> off]

Instruction ==
  {UnaryInstruction(o1, rs) : o1 \in ReadSources, rs \in ResSources}
    \cup {BinaryInstruction(o1, o2, rs, o) :
            o1 \in ReadSources, o2 \in ReadSources, rs \in ResSources,
            o \in BinaryOperation}
    \cup {JumpInstruction(off) : off \in ReadSources}

NoIns == [type |-> "None"]

NoEvent == [kind |-> "None"]
Op1Fetch(i) == [kind |-> "Op1Fetch", ins |-> i]
Op2Fetch(i, o1) == [kind |-> "Op2Fetch", ins |-> i, op1 |-> o1]
Execution(i, o1, o2) == [kind |-> "Execution", ins |-> i, op1 |-> o1, op2 |-> o2]
Writeback(i, r) == [kind |-> "Writeback", ins |-> i, res |-> r]
Exception(m) == [kind |-> "Exception", msg |-> m]

EventKinds == {"Op1Fetch", "Op2Fetch", "Execution", "Writeback", "Exception"}

(***************************************************************************)
(* State                                                                   *)
(***************************************************************************)
VARIABLES
  regs, data,          \* std::uint8_t regs[16], data[1024] (the cells in use)
  clk,                 \* cycle counter
  fetch1, fetch2, exec, writeback, exceptions,   \* stage counters
  pending,             \* the event the dispatcher consumes next, or NoEvent
  fault,               \* std::logic_error thrown by put_value_to_source
  \* history of the run, read by the properties only
  cur,                 \* the instruction of the current/last execute()
  pre,                 \* registers, memory and counters when it was issued
  issued,              \* number of execute() calls
  consumed,            \* events consumed so far, per kind
  evs,                 \* kinds consumed by the current/last execute()
  hist,                \* numbers of issued instructions of each shape
  twin,                \* a second State given the same instructions (PairSpec)
  call                 \* the last direct call of an addressing primitive (PrimSpec)

vars == <<regs, data, clk, fetch1, fetch2, exec, writeback, exceptions,
          pending, fault, cur, pre, issued, consumed, evs, hist, twin, call>>

(***************************************************************************)
(* Addressing resolution                                                   *)
(***************************************************************************)
\* variant: the conversion clamps to the cell's range, it does not wrap
ToCell_Saturating(value) ==
  IF value < 0 THEN 0 ELSE IF value >= CellWidth THEN CellWidth - 1 ELSE value

\* int -> std::uint8_t conversion of an assignment to a cell
ToCell(value) == value % CellWidth

read_value_from_source(r, d, source) ==
  CASE source.mode = "Direct" -> r[source.reg]
    [] source.mode = "Indirect" -> d[source.addr]
    [] source.mode = "Immediate" -> source.value

\* variant: a store to an Immediate destination is silently dropped
put_value_to_source_DropsImmediate(r, d, source, value) ==
  CASE source.mode = "Direct" ->
         [regs |-> [r EXCEPT ![source.reg] = ToCell(value)], data |-> d,
          fault |-> FALSE]
    [] source.mode = "Indirect" ->
         [regs |-> r, data |-> [d EXCEPT ![source.addr] = ToCell(value)],
          fault |-> FALSE]
    [] source.mode = "Immediate" ->
         [regs |-> r, data |-> d, fault |-> FALSE]

\* the registers, the memory and whether the logic fault was thrown
put_value_to_source(r, d, source, value) ==
  CASE source.mode = "Direct" ->
         [regs |-> [r EXCEPT ![source.reg] = ToCell(value)], data |-> d,
          fault |-> FALSE]
    [] source.mode = "Indirect" ->
         [regs |-> r, data |-> [d EXCEPT ![source.addr] = ToCell(value)],
          fault |-> FALSE]
    [] source.mode = "Immediate" ->
         [regs |-> r, data |-> d, fault |-> TRUE]

(***************************************************************************)
(* Instruction semantics                                                   *)
(***************************************************************************)
UnaryCalculate(x, op1) == op1

BinaryCalculate(x, op1, op2) ==
  CASE x.op = "ADD" -> op1 + op2
    [] x.op = "SUB" -> op1 - op2

JumpCalculate(x, value) == value

\* variant: the Unary result takes the second operand in, as the Jump's does
calculate_value_UnaryAddsOp2(i, op1, op2) ==
  Writeback(i,
    CASE i.type = "Unary" -> UnaryCalculate(i, op1 + op2)
      [] i.type = "Jump" -> JumpCalculate(i, op1 + op2)
      [] i.type = "Binary" -> BinaryCalculate(i, op1, op2))

calculate_value(i, op1, op2) ==
  Writeback(i,
    CASE i.type = "Unary" -> UnaryCalculate(i, op1)
      [] i.type = "Jump" -> JumpCalculate(i, op1 + op2)
      [] i.type = "Binary" -> BinaryCalculate(i, op1, op2))

(***************************************************************************)
(* Stage logic.  Each operator yields the registers and memory it leaves,  *)
(* whether the logic fault was thrown, and the optional next event.        *)
(***************************************************************************)
Outcome(r, d, f, e) == [regs |-> r, data |-> d, fault |-> f, ev |-> e]

\* variant: a register destination is stored into data[], not regs[]
get_writeback_StoresInMemory(r, d, wr, res_addr) ==
  CASE res_addr.mode = "Direct" ->
         Outcome(r, [d EXCEPT ![res_addr.reg] = ToCell(wr.res)], FALSE, NoEvent)
    [] res_addr.mode = "Indirect" -> Outcome(r, d, FALSE, wr)
    [] res_addr.mode = "Immediate" ->
         Outcome(r, d, FALSE,
                 Exception("ImmidiateSource is prohibited as result source"))

\* variant: a register destination is deferred like a memory destination
get_writeback_AlwaysDefers(r, d, wr, res_addr) ==
  CASE res_addr.mode = "Direct" -> Outcome(r, d, FALSE, wr)
    [] res_addr.mode = "Indirect" -> Outcome(r, d, FALSE, wr)
    [] res_addr.mode = "Immediate" ->
         Outcome(r, d, FALSE,
                 Exception("ImmidiateSource is prohibited as result source"))

get_writeback(r, d, wr, res_addr) ==
  CASE res_addr.mode = "Direct" ->
         LET p == put_value_to_source(r, d, res_addr, wr.res)
         IN  Outcome(p.regs, p.data, p.fault, NoEvent)
    [] res_addr.mode = "Indirect" -> Outcome(r, d, FALSE, wr)
    [] res_addr.mode = "Immediate" ->
         Outcome(r, d, FALSE,
                 Exception("ImmidiateSource is prohibited as result source"))

\* variant: the dummy second operand of a Unary or Jump is a memory cell
get_fetch2_DummyOperandInMemory(r, d, e) ==
  LET src == IF e.ins.type = "Binary" THEN e.ins.op2_addr ELSE IndirectSource(0)
      res == IF e.ins.type = "Jump" THEN DirectSource(0) ELSE e.ins.res_addr
  IN  CASE src.mode = "Direct" ->
             get_writeback(r, d, calculate_value(e.ins, e.op1, r[src.reg]), res)
        [] src.mode = "Immediate" ->
             get_writeback(r, d, calculate_value(e.ins, e.op1, src.value), res)
        [] src.mode = "Indirect" -> Outcome(r, d, FALSE, e)

\* variant: a memory operand 2 is read in the current cycle, not deferred
get_fetch2_NoDefer(r, d, e) ==
  LET src == IF e.ins.type = "Binary" THEN e.ins.op2_addr ELSE DirectSource(0)
      res == IF e.ins.type = "Jump" THEN DirectSource(0) ELSE e.ins.res_addr
  IN  get_writeback(r, d,
        calculate_value(e.ins, e.op1, read_value_from_source(r, d, src)), res)

get_fetch2(r, d, e) ==
  LET src == IF e.ins.type = "Binary" THEN e.ins.op2_addr ELSE DirectSource(0)
      res == IF e.ins.type = "Jump" THEN DirectSource(0) ELSE e.ins.res_addr
  IN  CASE src.mode = "Direct" ->
             get_writeback(r, d, calculate_value(e.ins, e.op1, r[src.reg]), res)
        [] src.mode = "Immediate" ->
             get_writeback(r, d, calculate_value(e.ins, e.op1, src.value), res)
        [] src.mode = "Indirect" -> Outcome(r, d, FALSE, e)

FirstOperand(ins) ==
  IF ins.type = "Jump" THEN ins.offset_addr ELSE ins.op1_addr

get_fetch1(r, d, ins) ==
  LET src == FirstOperand(ins)
  IN  CASE src.mode = "Direct" -> get_fetch2(r, d, Op2Fetch(ins, r[src.reg]))
        [] src.mode = "Immediate" -> get_fetch2(r, d, Op2Fetch(ins, src.value))
        [] src.mode = "Indirect" -> Outcome(r, d, FALSE, Op1Fetch(ins))

handle_Op1Fetch(r, d, event) ==
  LET i == event.ins
  IN  CASE i.type = "Binary" ->
             get_fetch2(r, d, Op2Fetch(i, read_value_from_source(r, d, i.op1_addr)))
        [] i.type = "Unary" ->
             get_writeback(r, d,
               Writeback(i, read_value_from_source(r, d, i.op1_addr)), i.res_addr)
        [] i.type = "Jump" ->
             Outcome(r, d, FALSE,
               Writeback(i, read_value_from_source(r, d, i.offset_addr)))

\* variant: the resumed fetch hands the operands to an Execution event
handle_Op2Fetch_ViaExecution(r, d, event) ==
  LET i == event.ins
  IN  CASE i.type = "Binary" ->
             Outcome(r, d, FALSE,
               Execution(i, event.op1, read_value_from_source(r, d, i.op2_addr)))
        [] i.type = "Unary" ->
             Outcome(r, d, FALSE, Exception("UnaryInstruction pipelined Op2Fetch"))
        [] i.type = "Jump" ->
             Outcome(r, d, FALSE, Exception("JumpInstruction pipelined Op2Fetch"))

\* variant: the resumed fetch goes through get_fetch2 again, which defers again
handle_Op2Fetch_Refetch(r, d, event) ==
  LET i == event.ins
  IN  CASE i.type = "Binary" -> get_fetch2(r, d, Op2Fetch(i, event.op1))
        [] i.type = "Unary" ->
             Outcome(r, d, FALSE, Exception("UnaryInstruction pipelined Op2Fetch"))
        [] i.type = "Jump" ->
             Outcome(r, d, FALSE, Exception("JumpInstruction pipelined Op2Fetch"))

\* variant: the resumed fetch adds the operands whatever the operation is
handle_Op2Fetch_AlwaysAdd(r, d, event) ==
  LET i == event.ins
  IN  CASE i.type = "Binary" ->
             Outcome(r, d, FALSE,
               Writeback(i, event.op1 + read_value_from_source(r, d, i.op2_addr)))
        [] i.type = "Unary" ->
             Outcome(r, d, FALSE, Exception("UnaryInstruction pipelined Op2Fetch"))
        [] i.type = "Jump" ->
             Outcome(r, d, FALSE, Exception("JumpInstruction pipelined Op2Fetch"))

handle_Op2Fetch(r, d, event) ==
  LET i == event.ins
  IN  CASE i.type = "Binary" ->
             Outcome(r, d, FALSE,
               calculate_value(i, event.op1,
                               read_value_from_source(r, d, i.op2_addr)))
        [] i.type = "Unary" ->
             Outcome(r, d, FALSE, Exception("UnaryInstruction pipelined Op2Fetch"))
        [] i.type = "Jump" ->
             Outcome(r, d, FALSE, Exception("JumpInstruction pipelined Op2Fetch"))

handle_Execution(r, d, event) ==
  LET i == event.ins
  IN  CASE i.type = "Binary" ->
             Outcome(r, d, FALSE,
                     Writeback(i, BinaryCalculate(i, event.op1, event.op2)))
        [] i.type = "Unary" -> Outcome(r, d, FALSE, Writeback(i, event.op1))
        [] i.type = "Jump" -> Outcome(r, d, FALSE, Writeback(i, event.op1))

\* variant: a Writeback to an Immediate destination is turned into an
\* Exception event, not into the logic fault
handle_Writeback_RaisesException(r, d, event) ==
  LET i == event.ins
      dst == IF i.type = "Jump" THEN DirectSource(0) ELSE i.res_addr
      p == put_value_to_source(r, d, dst, event.res)
  IN  IF p.fault
        THEN Outcome(r, d, FALSE,
                     Exception("ImmidiateSource is prohibited as result source"))
        ELSE Outcome(p.regs, p.data, FALSE, NoEvent)

handle_Writeback(r, d, event) ==
  LET i == event.ins
      dst == IF i.type = "Jump" THEN DirectSource(0) ELSE i.res_addr
      p == put_value_to_source(r, d, dst, event.res)
  IN  Outcome(p.regs, p.data, p.fault, NoEvent)

handle_Exception(r, d, event) == Outcome(r, d, FALSE, NoEvent)

\* the visit of handle_event(const ExecutionEvent&) over the event's kind
Dispatch(r, d, event) ==
  CASE event.kind = "Op1Fetch" -> handle_Op1Fetch(r, d, event)
    [] event.kind = "Op2Fetch" -> handle_Op2Fetch(r, d, event)
    [] event.kind = "Execution" -> handle_Execution(r, d, event)
    [] event.kind = "Writeback" -> handle_Writeback(r, d, event)
    [] event.kind = "Exception" -> handle_Exception(r, d, event)

\* variant: a handler sets its counter to 1 where it should increment it
Bump_SetsToOne(counter, kind, event) ==
  IF event.kind = kind THEN 1 ELSE counter

\* variant: the Exception handler does not count its visit
Bump_ExceptionUncounted(counter, kind, event) ==
  IF event.kind = kind /\ kind # "Exception" THEN counter + 1 ELSE counter

\* variant: the Writeback handler does not count its visit
Bump_WritebackUncounted(counter, kind, event) ==
  IF event.kind = kind /\ kind # "Writeback" THEN counter + 1 ELSE counter

\* variant: a handler clears the counters of the other stages
Bump_ClearsOthers(counter, kind, event) ==
  IF event.kind = kind THEN counter + 1 ELSE 0

\* the counter each handler increments on entry
Bump(counter, kind, event) == IF event.kind = kind THEN counter + 1 ELSE counter

(***************************************************************************)
(* Shapes of an instruction                                                *)
(***************************************************************************)
Op1Indirect(i) == FirstOperand(i).mode = "Indirect"
Op2Indirect(i) == i.type = "Binary" /\ i.op2_addr.mode = "Indirect"
\* the destination of the store: register 0 for a Jump
ResultSource(i) == IF i.type = "Jump" THEN DirectSource(0) ELSE i.res_addr

Snapshot ==
  [regs |-> regs, data |-> data, clk |-> clk, fetch1 |-> fetch1,
   fetch2 |-> fetch2, exec |-> exec, writeback |-> writeback,
   exceptions |-> exceptions]

(***************************************************************************)
(* Behaviour                                                               *)
(***************************************************************************)
\* The second State of PairSpec starts with the registers and memory of a
\* new State and the counters left by
\*   execute(Binary{Indirect(0), Indirect(0), Indirect(0), ADD});
\*   execute(Unary{Direct(0), Immediate(1)});
\* which store 0 + 0 into memory[0] and fault once.
TwinStart ==
  [regs |-> [r \in Regs |-> 0], data |-> [a \in Addrs |-> 0],
   clk |-> 6, fetch1 |-> 1, fetch2 |-> 1, exec |-> 0, writeback |-> 1,
   exceptions |-> 1, pending |-> NoEvent, fault |-> FALSE, evs |-> <<>>]

NoCall == [op |-> "none"]

Init ==
  /\ regs = [r \in Regs |-> 0]
  /\ data = [a \in Addrs |-> 0]
  /\ clk = 0
  /\ fetch1 = 0 /\ fetch2 = 0 /\ exec = 0 /\ writeback = 0 /\ exceptions = 0
  /\ pending = NoEvent
  /\ fault = FALSE
  /\ cur = NoIns
  /\ pre = Snapshot
  /\ issued = 0
  /\ consumed = [k \in EventKinds |-> 0]
  /\ evs = <<>>
  /\ hist = [op1ind |-> 0, op2ind |-> 0, resimm |-> 0]
  /\ twin = TwinStart
  /\ call = NoCall

\* execute(i): the decode cycle and the combinational part of the walk
Execute(i) ==
  /\ cur = NoIns
  /\ pending = NoEvent
  /\ ~fault
  /\ clk < MaxClk
  /\ LET o == get_fetch1(regs, data, i)
     IN  /\ regs' = o.regs
         /\ data' = o.data
         /\ fault' = o.fault
         /\ pending' = o.ev
  /\ clk' = clk + 1
  /\ UNCHANGED <<fetch1, fetch2, exec, writeback, exceptions, consumed>>
  /\ cur' = i
  /\ pre' = Snapshot
  /\ issued' = issued + 1
  /\ evs' = <<>>
  /\ hist' = [op1ind |-> hist.op1ind + (IF Op1Indirect(i) THEN 1 ELSE 0),
              op2ind |-> hist.op2ind + (IF Op2Indirect(i) THEN 1 ELSE 0),
              resimm |-> hist.resimm
                           + (IF ResultSource(i).mode = "Immediate" THEN 1 ELSE 0)]

\* handle_event(const ExecutionEvent&): one consumed event, one cycle
HandleEvent ==
  /\ pending # NoEvent
  /\ ~fault
  /\ clk' = clk + 1
  /\ fetch1' = Bump(fetch1, "Op1Fetch", pending)
  /\ fetch2' = Bump(fetch2, "Op2Fetch", pending)
  /\ exec' = Bump(exec, "Execution", pending)
  /\ writeback' = Bump(writeback, "Writeback", pending)
  /\ exceptions' = Bump(exceptions, "Exception", pending)
  /\ LET o == Dispatch(regs, data, pending)
     IN  /\ regs' = o.regs
         /\ data' = o.data
         /\ fault' = o.fault
         /\ pending' = IF o.fault THEN NoEvent ELSE o.ev
  /\ consumed' = [consumed EXCEPT ![pending.kind] = @ + 1]
  /\ evs' = Append(evs, pending.kind)
  /\ UNCHANGED <<cur, pre, issued, hist>>

\* execute() returns to the loop of main, which issues the next instruction
Return ==
  /\ cur # NoIns
  /\ pending = NoEvent
  /\ ~fault
  /\ cur' = NoIns
  /\ pre' = Snapshot
  /\ evs' = <<>>
  /\ UNCHANGED <<regs, data, clk, fetch1, fetch2, exec, writeback, exceptions,
                 pending, fault, issued, consumed, hist>>

\* one State, driven by main
Alone == UNCHANGED <<twin, call>>

Next ==
  \/ \E i \in Instruction : Execute(i) /\ Alone
  \/ HandleEvent /\ Alone
  \/ Return /\ Alone

Spec == Init /\ [][Next]_vars

(***************************************************************************)
(* PairSpec: two States that agree on registers and memory and differ in   *)
(* their counters are given the same instructions, step by step.           *)
(***************************************************************************)
TwinExecute(i) ==
  LET o == get_fetch1(twin.regs, twin.data, i)
  IN  twin' = [twin EXCEPT !.regs = o.regs, !.data = o.data,
                           !.fault = o.fault, !.pending = o.ev,
                           !.clk = @ + 1, !.evs = <<>>]

TwinHandleEvent ==
  /\ twin.pending # NoEvent
  /\ ~twin.fault
  /\ LET o == Dispatch(twin.regs, twin.data, twin.pending)
     IN  twin' =
           [twin EXCEPT
              !.clk = @ + 1,
              !.fetch1 = Bump(@, "Op1Fetch", twin.pending),
              !.fetch2 = Bump(@, "Op2Fetch", twin.pending),
              !.exec = Bump(@, "Execution", twin.pending),
              !.writeback = Bump(@, "Writeback", twin.pending),
              !.exceptions = Bump(@, "Exception", twin.pending),
              !.regs = o.regs, !.data = o.data, !.fault = o.fault,
              !.pending = IF o.fault THEN NoEvent ELSE o.ev,
              !.evs = Append(@, twin.pending.kind)]

TwinReturn ==
  /\ twin.pending = NoEvent
  /\ ~twin.fault
  /\ twin' = [twin EXCEPT !.evs = <<>>]

PairNext ==
  \/ \E i \in Instruction : Execute(i) /\ TwinExecute(i) /\ UNCHANGED call
  \/ HandleEvent /\ TwinHandleEvent /\ UNCHANGED call
  \/ Return /\ TwinReturn /\ UNCHANGED call

PairSpec == Init /\ [][PairNext]_vars

(***************************************************************************)
(* PrimSpec: the addressing primitives called directly on a State, outside *)
(* the pipeline machine.                                                   *)
(***************************************************************************)
\* values written: below 0, inside the cell's range, and above it
PutValues == {-257, -1, 0, 7, 255, 256, 300}

PipelineIdle == UNCHANGED <<pending, cur, issued, consumed, evs, hist, twin>>

\* put_value_to_source(dst, v)
Put(dst, v) ==
  /\ ~fault
  /\ LET p == put_value_to_source(regs, data, dst, v)
     IN  /\ regs' = p.regs
         /\ data' = p.data
         /\ fault' = p.fault
  /\ pre' = Snapshot
  /\ call' = [op |-> "put", dst |-> dst, value |-> v]
  /\ UNCHANGED <<clk, fetch1, fetch2, exec, writeback, exceptions>>
  /\ PipelineIdle

\* read_value_from_source(src), after the last put if there was one
Get(src) ==
  /\ ~fault
  /\ call' = [op |-> "get", src |-> src,
              result |-> read_value_from_source(regs, data, src),
              dst |-> IF call.op = "none" THEN NoCall ELSE call.dst,
              value |-> IF call.op = "none" THEN 0 ELSE call.value]
  /\ UNCHANGED <<regs, data, fault, pre, clk, fetch1, fetch2, exec, writeback,
                 exceptions>>
  /\ PipelineIdle

PrimNext ==
  \/ \E dst \in ResSources, v \in PutValues : Put(dst, v)
  \/ \E src \in ReadSources : Get(src)

PrimSpec == Init /\ [][PrimNext]_vars

(***************************************************************************)
(* Vocabulary of the properties                                            *)
(***************************************************************************)
\* execute() has returned normally and main has not yet issued the next one
Retired == cur # NoIns /\ pending = NoEvent /\ ~fault

\* execute() is over: it returned, or the logic fault left it
Finished == cur # NoIns /\ pending = NoEvent

\* value a source had when the current instruction was issued
PreRead(source) == read_value_from_source(pre.regs, pre.data, source)

\* value of the cell a destination names, now
CellOf(source) == read_value_from_source(regs, data, source)

Ind(b) == IF b THEN 1 ELSE 0

NoStageCounterMoved ==
  /\ fetch1 = pre.fetch1 /\ fetch2 = pre.fetch2 /\ exec = pre.exec
  /\ writeback = pre.writeback /\ exceptions = pre.exceptions

ReadsNotIndirect(i) == ~Op1Indirect(i) /\ ~Op2Indirect(i)

TypeOK ==
  /\ regs \in [Regs -> 0..(CellWidth - 1)]
  /\ data \in [Addrs -> 0..(CellWidth - 1)]
  /\ clk \in Nat
  /\ fault \in BOOLEAN

(***************************************************************************)
(* C1: every instruction whose destination is not Immediate takes          *)
(* 1 + (op1 Indirect) + (Binary and op2 Indirect) + (destination Indirect) *)
(* cycles.                                                                 *)
(***************************************************************************)
C1_CycleContract ==
  (Retired /\ ResultSource(cur).mode # "Immediate") =>
    clk - pre.clk = 1 + Ind(Op1Indirect(cur)) + Ind(Op2Indirect(cur))
                      + Ind(ResultSource(cur).mode = "Indirect")

(***************************************************************************)
(* C2: a Binary instruction with Indirect operand 2 and Direct destination *)
(* stores its result in the cycle that resumes Op2Fetch: no Writeback      *)
(* event follows, writeback is unchanged, fetch2 grows by 1 and, with a    *)
(* Direct/Immediate operand 1, the instruction takes 2 cycles.             *)
(***************************************************************************)
C2_Op2FetchStoresInline ==
  (cur.type = "Binary" /\ Op2Indirect(cur) /\ cur.res_addr.mode = "Direct") =>
    /\ pending.kind # "Writeback"
    /\ writeback = pre.writeback
    /\ Retired =>
         /\ fetch2 = pre.fetch2 + 1
         /\ ~Op1Indirect(cur) => clk = pre.clk + 2

(***************************************************************************)
(* C3: put_value_to_source is never called with an Immediate destination:  *)
(* the logic fault is never raised by the pipeline machine.                *)
(***************************************************************************)
C3_NoLogicFault == ~fault

(***************************************************************************)
(* C4: a Unary or Binary instruction with an Immediate destination counts  *)
(* one exception, changes no register and no memory cell, and returns      *)
(* normally.                                                               *)
(***************************************************************************)
C4_ImmediateDestinationFaults ==
  (Finished /\ cur.type \in {"Unary", "Binary"}
     /\ cur.res_addr.mode = "Immediate") =>
    /\ ~fault
    /\ exceptions = pre.exceptions + 1
    /\ regs = pre.regs
    /\ data = pre.data

(***************************************************************************)
(* C5: after a Jump register 0 holds the value its offset had before the   *)
(* instruction (mod 256), and no other register or memory cell changed.    *)
(***************************************************************************)
C5_JumpWritesOffset ==
  (Retired /\ cur.type = "Jump") =>
    /\ regs[0] = ToCell(PreRead(cur.offset_addr))
    /\ \A r \in Regs \ {0} : regs[r] = pre.regs[r]
    /\ data = pre.data

(***************************************************************************)
(* C6: after a Binary instruction with a Direct or Indirect destination    *)
(* the destination cell holds (a + b) mod 256 for Add and (a - b) mod 256  *)
(* for Sub, a and b being the operands' values before the instruction,     *)
(* also when the destination aliases an operand.                           *)
(***************************************************************************)
C6_BinaryResult ==
  (Retired /\ cur.type = "Binary" /\ cur.res_addr.mode # "Immediate") =>
    LET a == PreRead(cur.op1_addr)
        b == PreRead(cur.op2_addr)
    IN  /\ cur.op = "ADD" => CellOf(cur.res_addr) = (a + b) % CellWidth
        /\ cur.op = "SUB" => CellOf(cur.res_addr) = (a - b) % CellWidth
        /\ CellOf(cur.res_addr) \in 0..(CellWidth - 1)

\* an Add that overflows the cell, stored over its own first operand
C6_Witness ==
  /\ Retired /\ cur.type = "Binary" /\ cur.op = "ADD"
  /\ cur.res_addr.mode # "Immediate"
  /\ cur.res_addr = cur.op1_addr
  /\ PreRead(cur.op1_addr) + PreRead(cur.op2_addr) >= CellWidth
  /\ CellOf(cur.res_addr)
       = PreRead(cur.op1_addr) + PreRead(cur.op2_addr) - CellWidth

(***************************************************************************)
(* C7: after a Unary instruction with a Direct or Indirect destination the *)
(* destination cell holds the value of op1 before the instruction, mod     *)
(* 256, whatever register 0 holds; Immediate -> Direct takes 1 cycle and   *)
(* Indirect -> Indirect takes 3.                                           *)
(***************************************************************************)
C7_UnaryResult ==
  (Retired /\ cur.type = "Unary" /\ cur.res_addr.mode # "Immediate") =>
    /\ CellOf(cur.res_addr) = PreRead(cur.op1_addr) % CellWidth
    /\ (cur.op1_addr.mode = "Immediate" /\ cur.res_addr.mode = "Direct")
         => clk = pre.clk + 1
    /\ (cur.op1_addr.mode = "Indirect" /\ cur.res_addr.mode = "Indirect")
         => clk = pre.clk + 3

\* a literal outside 0..255 moved into a register while register 0 is not 0
C7_Witness ==
  /\ Retired /\ cur.type = "Unary"
  /\ cur.op1_addr.mode = "Immediate" /\ cur.op1_addr.value \notin 0..(CellWidth - 1)
  /\ cur.res_addr.mode = "Direct" /\ cur.res_addr.reg # 0
  /\ pre.regs[0] # 0
  /\ regs[cur.res_addr.reg] = cur.op1_addr.value + CellWidth

(***************************************************************************)
(* C8, as stated: an instruction whose read operands and destination are   *)
(* all Direct or Immediate (Immediate destinations included) takes 1 cycle *)
(* and moves no stage counter.                                             *)
(***************************************************************************)
C8_Original ==
  (Retired /\ ReadsNotIndirect(cur) /\ ResultSource(cur).mode # "Indirect") =>
    /\ clk = pre.clk + 1
    /\ NoStageCounterMoved

(***************************************************************************)
(* C8, amended: with Direct/Immediate read operands, a Direct destination  *)
(* gives 1 cycle and no stage counter moves; an Immediate destination      *)
(* gives 2 cycles and exceptions grows by 1, the other counters unchanged. *)
(***************************************************************************)
C8_Amended ==
  (Retired /\ ReadsNotIndirect(cur)) =>
    /\ ResultSource(cur).mode = "Direct" =>
         /\ clk = pre.clk + 1
         /\ NoStageCounterMoved
    /\ ResultSource(cur).mode = "Immediate" =>
         /\ clk = pre.clk + 2
         /\ exceptions = pre.exceptions + 1
         /\ fetch1 = pre.fetch1 /\ fetch2 = pre.fetch2 /\ exec = pre.exec
         /\ writeback = pre.writeback

\* a Binary instruction on registers and literals retired in its decode cycle
C8_Witness ==
  /\ Retired /\ cur.type = "Binary" /\ ReadsNotIndirect(cur)
  /\ cur.res_addr.mode = "Direct"
  /\ pre.clk > 0 /\ clk = pre.clk + 1
  /\ regs # pre.regs

(***************************************************************************)
(* C9: a Binary instruction with Indirect op1, op2 and destination takes   *)
(* 4 cycles; fetch1, fetch2 and writeback grow by 1 each, exceptions by 0. *)
(***************************************************************************)
C9_AllIndirect ==
  (Retired /\ cur.type = "Binary" /\ Op1Indirect(cur) /\ Op2Indirect(cur)
     /\ cur.res_addr.mode = "Indirect") =>
    /\ clk = pre.clk + 4
    /\ fetch1 = pre.fetch1 + 1
    /\ fetch2 = pre.fetch2 + 1
    /\ writeback = pre.writeback + 1
    /\ exceptions = pre.exceptions
    /\ exec = pre.exec

\* such an instruction retired, on a memory that was not all zero
C9_Witness ==
  /\ Retired /\ cur.type = "Binary" /\ Op1Indirect(cur) /\ Op2Indirect(cur)
  /\ cur.res_addr.mode = "Indirect"
  /\ PreRead(cur.op1_addr) # 0
  /\ clk = pre.clk + 4
  /\ evs = <<"Op1Fetch", "Op2Fetch", "Writeback">>

(***************************************************************************)
(* C10: each stage counter equals the number of events of its kind         *)
(* consumed so far and grows by at most 1 during one execute; between      *)
(* instructions fetch1 is the number of executed instructions with an      *)
(* Indirect first operand and fetch2 the number of executed Binary         *)
(* instructions with an Indirect second operand.                           *)
(***************************************************************************)
C10_CountersCountEvents ==
  /\ fetch1 = consumed["Op1Fetch"]
  /\ fetch2 = consumed["Op2Fetch"]
  /\ exec = consumed["Execution"]
  /\ writeback = consumed["Writeback"]
  /\ exceptions = consumed["Exception"]
  /\ fetch1 - pre.fetch1 \in {0, 1}
  /\ fetch2 - pre.fetch2 \in {0, 1}
  /\ exec - pre.exec \in {0, 1}
  /\ writeback - pre.writeback \in {0, 1}
  /\ exceptions - pre.exceptions \in {0, 1}
  /\ pending = NoEvent => (fetch1 = hist.op1ind /\ fetch2 = hist.op2ind)

\* two instructions executed, every counter of a reachable kind moved
C10_Witness ==
  /\ Retired /\ issued = 2
  /\ fetch1 = 1 /\ fetch2 = 1 /\ writeback = 1 /\ exceptions = 1

(***************************************************************************)
(* C11: every execute consumes at most 3 events and then has no pending    *)
(* event, so it advances clk by at least 1 and at most 4; an instruction   *)
(* is issued only when no event of the previous one is pending.            *)
(***************************************************************************)
C11_BoundedWalk ==
  /\ Len(evs) <= 3
  /\ Len(evs) = 3 => pending = NoEvent
  /\ cur # NoIns =>
       /\ clk - pre.clk = 1 + Len(evs)
       /\ clk - pre.clk \in 1..4
  /\ cur = NoIns => pending = NoEvent

\* an execute that took the longest walk, on memory that held a value
C11_Witness ==
  /\ Retired /\ Len(evs) = 3 /\ clk = pre.clk + 4
  /\ pre.data # [a \in Addrs |-> 0]

(***************************************************************************)
(* C15: clk = (number of execute calls) + fetch1 + fetch2 + exec +         *)
(* writeback + exceptions: the decode step charges one cycle and every     *)
(* consumed event charges one cycle and exactly one stage counter.         *)
(***************************************************************************)
C15_ClockIsSumOfVisits ==
  clk = issued + fetch1 + fetch2 + exec + writeback + exceptions

\* two instructions completed, with events of three kinds consumed
C15_Witness ==
  /\ Retired /\ issued = 2
  /\ fetch1 > 0 /\ writeback > 0 /\ exceptions > 0
  /\ clk = issued + fetch1 + fetch2 + writeback + exceptions

(***************************************************************************)
(* C16: within one execute the consumed events follow the stage order      *)
(* Op1Fetch, Op2Fetch, then Writeback or Exception: each kind at most      *)
(* once, no Op1Fetch after an Op2Fetch, and nothing after a Writeback or   *)
(* an Exception.                                                           *)
(***************************************************************************)
StageRank(kind) ==
  CASE kind = "Op1Fetch" -> 1
    [] kind = "Op2Fetch" -> 2
    [] kind = "Execution" -> 3
    [] kind = "Writeback" -> 4
    [] kind = "Exception" -> 4
    [] kind = "None" -> 5

C16_StageOrder ==
  /\ \A m \in 1..Len(evs) : \A n \in 1..Len(evs) :
       m < n => StageRank(evs[m]) < StageRank(evs[n])
  /\ evs # <<>> =>
       /\ StageRank(evs[Len(evs)]) < StageRank(pending.kind)
       /\ evs[Len(evs)] \in {"Writeback", "Exception"} => pending = NoEvent

\* a walk through all three stages, in order
C16_Witness ==
  /\ Retired
  /\ evs = <<"Op1Fetch", "Op2Fetch", "Writeback">>
  /\ cur.type = "Binary"
  /\ data # pre.data

(***************************************************************************)
(* C17: for a Jump with an Indirect offset, returning Writeback{instr,     *)
(* op1} from the Op1Fetch resumption leaves registers, memory, clk and the *)
(* stage counters as the general writeback decision with destination       *)
(* Direct(0) would: the value stored at once, no deferred Writeback.       *)
(***************************************************************************)
\* the Op1Fetch resumption of the current Jump, routed through get_writeback
JumpThroughWritebackDecision ==
  get_writeback(pre.regs, pre.data,
                Writeback(cur, PreRead(cur.offset_addr)), DirectSource(0))

C17_JumpBypassHarmless ==
  (Retired /\ cur.type = "Jump" /\ Op1Indirect(cur)) =>
    /\ regs = JumpThroughWritebackDecision.regs
    /\ data = JumpThroughWritebackDecision.data
    /\ clk = pre.clk + 2
    /\ fetch1 = pre.fetch1 + 1
    /\ fetch2 = pre.fetch2 /\ exec = pre.exec
    /\ writeback = pre.writeback
    /\ exceptions = pre.exceptions

(***************************************************************************)
(* C18: an instruction changes at most the cell its destination names:     *)
(* the register of a Direct destination (register 0 for a Jump), the       *)
(* memory cell of an Indirect one; no other register or memory cell, and   *)
(* no read operand that does not alias the destination, is modified.       *)
(***************************************************************************)
C18_Frame ==
  cur # NoIns =>
    /\ \A r \in Regs :
         regs[r] # pre.regs[r] => ResultSource(cur) = DirectSource(r)
    /\ \A a \in Addrs :
         data[a] # pre.data[a] => ResultSource(cur) = IndirectSource(a)

\* a Binary instruction that overwrote its own first operand in memory,
\* its second operand being a register that held a value
C18_Witness ==
  /\ Retired /\ cur.type = "Binary"
  /\ cur.res_addr.mode = "Indirect" /\ cur.res_addr = cur.op1_addr
  /\ cur.op2_addr.mode = "Direct" /\ pre.regs[cur.op2_addr.reg] # 0
  /\ data[cur.res_addr.addr] # pre.data[cur.res_addr.addr]
  /\ regs = pre.regs

(***************************************************************************)
(* C19: a pending Op2Fetch always carries a Binary instruction, and every  *)
(* Exception is the Immediate-destination fault: the exceptions counter    *)
(* counts nothing but instructions with an Immediate destination.          *)
(***************************************************************************)
ImmediateResult(i) == i.type \in {"Unary", "Binary"} /\ i.res_addr.mode = "Immediate"

C19_OnlyImmediateFaults ==
  /\ pending.kind = "Op2Fetch" => pending.ins.type = "Binary"
  /\ pending.kind = "Exception" =>
       /\ pending.msg = "ImmidiateSource is prohibited as result source"
       /\ ImmediateResult(cur)
  /\ exceptions # pre.exceptions => ImmediateResult(cur)
  /\ exceptions <= hist.resimm
  /\ (pending = NoEvent /\ ~fault) => exceptions = hist.resimm

\* an Op2Fetch pending for a Binary, after an instruction that faulted
C19_Witness ==
  /\ pending.kind = "Op2Fetch" /\ pending.ins.type = "Binary"
  /\ exceptions = 1 /\ hist.resimm = 1

(***************************************************************************)
(* C20: no Execution event is ever pending or consumed, and exec stays 0.  *)
(***************************************************************************)
C20_NoExecutionEvent ==
  /\ pending.kind # "Execution"
  /\ exec = 0
  /\ consumed["Execution"] = 0
  /\ \A n \in 1..Len(evs) : evs[n] # "Execution"

\* a Binary computed in the Op2Fetch resumption, as the second instruction
C20_Witness ==
  /\ Retired /\ issued = 2 /\ cur.type = "Binary"
  /\ evs = <<"Op2Fetch", "Writeback">>
  /\ exec = 0
  /\ CellOf(cur.res_addr) # 0

C13_RoundTrip ==
  /\ (call.op = "put" /\ call.dst.mode # "Immediate") =>
       /\ ~fault
       /\ \A r \in Regs :
            regs[r] # pre.regs[r] => call.dst = DirectSource(r)
       /\ \A a \in Addrs :
            data[a] # pre.data[a] => call.dst = IndirectSource(a)
       /\ clk = pre.clk /\ NoStageCounterMoved
  /\ (call.op = "get" /\ call.src = call.dst) =>
       /\ call.result = call.value % CellWidth
       /\ call.result \in 0..(CellWidth - 1)
  /\ (call.op = "get" /\ call.src.mode = "Immediate") =>
       call.result = call.src.value

\* a value below 0 written to a memory cell and read back, the other
\* memory cell holding an earlier value
C13_Witness ==
  /\ call.op = "get" /\ call.src = call.dst /\ call.dst.mode = "Indirect"
  /\ call.value < 0
  /\ call.result = call.value + 2 * CellWidth
  /\ \E a \in Addrs : IndirectSource(a) # call.dst /\ data[a] # 0

(***************************************************************************)
(* C14: put_value_to_source with an Immediate destination ends in the      *)
(* logic fault and leaves every register, every memory cell, clk and all   *)
(* stage counters unchanged.                                               *)
(***************************************************************************)
C14_ImmediateWriteFaults ==
  (call.op = "put" /\ call.dst.mode = "Immediate") =>
    /\ fault
    /\ regs = pre.regs
    /\ data = pre.data
    /\ clk = pre.clk
    /\ NoStageCounterMoved

\* the fault raised on a State whose registers and memory held values
C14_Witness ==
  /\ call.op = "put" /\ call.dst.mode = "Immediate" /\ fault
  /\ \E r \in Regs : regs[r] # 0
  /\ \E a \in Addrs : data[a] # 0

(***************************************************************************)
(* C21: every step of execute (the decode cycle and each consumed event)   *)
(* strictly increases clk, and no step ever lowers clk, fetch1, fetch2,    *)
(* writeback or exceptions.                                                *)
(***************************************************************************)
C21_CountersMonotone ==
  [][/\ (issued' # issued \/ consumed' # consumed) => clk' > clk
     /\ clk' >= clk
     /\ fetch1' >= fetch1
     /\ fetch2' >= fetch2
     /\ writeback' >= writeback
     /\ exceptions' >= exceptions]_vars

\* the second instruction has completed: clk and fetch1 moved in both
\* instructions, fetch2 and writeback in the second
C21_Witness ==
  /\ Retired /\ issued = 2
  /\ pre.clk = 2 /\ clk > pre.clk
  /\ pre.fetch1 = 1 /\ fetch1 = 2
  /\ pre.fetch2 = 0 /\ fetch2 = 1
  /\ pre.writeback = 0 /\ writeback = 1
====
